---- MODULE Spec2Model ----
(***************************************************************************)
(* Zero-knowledge sum-check (subroutines/src/poly_iop/zk_sum_check):       *)
(* the protocol driver prove / verify of mod.rs over a small prime field,  *)
(* with the prover and verifier round state machines, the masking          *)
(* polynomial and the Fiat-Shamir transcript it drives.                    *)
(***************************************************************************)
EXTENDS Integers, Sequences, FiniteSets, TLC

\* ------------------------------------------------------------------ bounds
MaxNumVars == 2      \* largest num_variables of an input polynomial
MaxDegree  == 2      \* largest number of factors of a product / mask degree

\* ------------------------------------------------------------------ field
\* F: PrimeField, here the integers modulo the prime P.
P == 5

F == 0 .. (P - 1)

Fadd(a, b) == (a + b) % P
Fsub(a, b) == (a - b) % P
Fmul(a, b) == (a * b) % P

RECURSIVE Fpow(_, _)
Fpow(a, e) == IF e = 0 THEN 1 ELSE Fmul(a, Fpow(a, e - 1))

\* multiplicative inverse of a nonzero element (Fermat)
Finv(a) == Fpow(a, P - 2)

RECURSIVE SumSeq(_)
SumSeq(s) == IF s = <<>> THEN 0 ELSE Fadd(Head(s), SumSeq(Tail(s)))

RECURSIVE ProdSeq(_)
ProdSeq(s) == IF s = <<>> THEN 1 ELSE Fmul(Head(s), ProdSeq(Tail(s)))

RECURSIVE Pow2(_)
Pow2(k) == IF k = 0 THEN 1 ELSE 2 * Pow2(k - 1)

Max(a, b) == IF a >= b THEN a ELSE b

\* ------------------------------------------------------------------ polynomials
\* A multilinear function of n variables is its table over the hypercube,
\* a sequence of 2^n field elements; entry idx+1 is the value at the vertex
\* whose i-th coordinate is bit i-1 of idx.
Bit(idx, i) == (idx \div Pow2(i - 1)) % 2

\* weight of vertex idx in the multilinear extension at `point`
RECURSIVE EqWeight(_, _, _)
EqWeight(idx, point, i) ==
    IF i > Len(point) THEN 1
    ELSE Fmul(IF Bit(idx, i) = 1 THEN point[i] ELSE Fsub(1, point[i]),
              EqWeight(idx, point, i + 1))

\* DenseMultilinearExtension::evaluate
MleEvaluate(table, point) ==
    SumSeq([k \in 1 .. Len(table) |-> Fmul(table[k], EqWeight(k - 1, point, 1))])

\* VirtualPolynomial::evaluate: sum over the products of coef * prod of factors
PolyEvaluate(poly, point) ==
    SumSeq([k \in 1 .. Len(poly.products) |->
        Fmul(poly.products[k].coef,
             ProdSeq([j \in 1 .. Len(poly.products[k].factors) |->
                 MleEvaluate(poly.products[k].factors[j], point)]))])

\* RandomMaskPolynomial::eval
MaskEvaluate(mask, point) == MleEvaluate(mask.table, point)

\* sum of a table over the hypercube
TableSum(table) == SumSeq(table)

\* the sum of the virtual polynomial over the hypercube (asserted_sum of rand)
PolySum(poly) ==
    SumSeq([b \in 1 .. Pow2(poly.aux_info.num_variables) |->
        SumSeq([k \in 1 .. Len(poly.products) |->
            Fmul(poly.products[k].coef,
                 ProdSeq([j \in 1 .. Len(poly.products[k].factors) |->
                     poly.products[k].factors[j][b]]))])])

\* the mask's sum over the hypercube (second component of RandomMaskPolynomial::rand)
MaskSum(mask) == TableSum(mask.table)


\* ------------------------------------------------------------------ transcript
\* IOPTranscript: an append-only log of labelled entries; a challenge is a
\* deterministic function of the whole log (a hash reduced into the field).
LabelCode(label) ==
    CASE label = "init" -> 1
      [] label = "aux info" -> 2
      [] label = "prover msg" -> 3
      [] label = "Internal round" -> 4

RECURSIVE AbsorbData(_, _)
AbsorbData(h, data) ==
    IF data = <<>> THEN h
    ELSE AbsorbData((h * 7 + Head(data) + 3) % 61, Tail(data))

RECURSIVE Digest(_)
Digest(log) ==
    IF log = <<>> THEN 11
    ELSE LET prev == Digest(SubSeq(log, 1, Len(log) - 1))
             e == log[Len(log)]
         IN AbsorbData((prev * 13 + LabelCode(e[1]) * 5 + Len(e[2])) % 61, e[2])

\* IOPTranscript::new(label)
NewTranscript(seed) == << <<"init", <<seed>> >> >>

\* IOPTranscript::append_serializable_element
append_serializable_element(tr, label, data) == Append(tr, <<label, data>>)

\* the canonical serialization of VPAuxInfo
SerializeAux(aux) == <<aux.max_degree, aux.num_variables>>

\* IOPTranscript::get_and_append_challenge: the challenge is derived from the
\* log and the label, then appended to the log under that label.
get_and_append_challenge(tr, label) ==
    LET c == ((Digest(tr) * 3 + LabelCode(label)) % 61) % P
    IN [challenge |-> c, transcript |-> Append(tr, <<label, <<c>> >>)]

\* ------------------------------------------------------------------ prover state
\* bind the leading free variable of a table to r
FixVariable(table, r) ==
    [b \in 1 .. (Len(table) \div 2) |->
        Fadd(table[2 * b - 1], Fmul(r, Fsub(table[2 * b], table[2 * b - 1])))]

\* value at pair b of a table with its leading variable set to x
ExtendAt(table, b, x) ==
    Fadd(table[2 * b - 1], Fmul(x, Fsub(table[2 * b], table[2 * b - 1])))

\* ZkSumCheckProverState::prover_init
prover_init(polynomial, mask_poly) ==
    IF \/ mask_poly.num_variables # polynomial.aux_info.num_variables
       \/ mask_poly.degree < polynomial.aux_info.max_degree
    THEN [ok |-> FALSE, error |-> "InvalidInput"]
    ELSE [ok |-> TRUE,
          state |-> [challenges |-> <<>>,
                     round |-> 0,
                     products |-> polynomial.products,
                     mask_table |-> mask_poly.table,
                     degree |-> Max(polynomial.aux_info.max_degree, mask_poly.degree)]]

\* the round message: evaluations at 0..D of the round polynomial
RoundMessage(st, r) ==
    [x1 \in 1 .. (st.degree + 1) |->
        SumSeq([b \in 1 .. (Len(st.mask_table) \div 2) |->
            Fadd(SumSeq([k \in 1 .. Len(st.products) |->
                     Fmul(st.products[k].coef,
                          ProdSeq([j \in 1 .. Len(st.products[k].factors) |->
                              ExtendAt(st.products[k].factors[j], b, x1 - 1)]))]),
                 Fmul(r, ExtendAt(st.mask_table, b, x1 - 1)))])]

\* fold every factor table and the mask by the previous challenge
FoldState(st, c) ==
    [st EXCEPT
        !.challenges = Append(@, c),
        !.round = @ + 1,
        !.products = [k \in 1 .. Len(@) |->
            [coef |-> @[k].coef,
             factors |-> [j \in 1 .. Len(@[k].factors) |->
                 FixVariable(@[k].factors[j], c)]]],
        !.mask_table = FixVariable(@, c)]

\* ZkSumCheckProverState::prove_round_and_update_state; `chal` is the
\* Option<F> of the previous challenge: <<>> is None, <<c>> is Some(c).
prove_round_and_update_state(st, r, chal) ==
    LET st1 == IF chal = <<>> THEN st ELSE FoldState(st, chal[1])
    IN [state |-> st1, msg |-> RoundMessage(st1, r)]

\* ------------------------------------------------------------------ verifier state
\* IOPVerifierState::verifier_init
verifier_init(aux_info) ==
    [num_vars |-> aux_info.num_variables,
     max_degree |-> aux_info.max_degree,
     polynomials_received |-> <<>>,
     challenges |-> <<>>]

\* IOPVerifierState::verify_round_and_update_state: only samples and stores
\* the challenge and the message; the checks are deferred.
verify_round_and_update_state(vs, prover_msg, tr) ==
    LET c == get_and_append_challenge(tr, "Internal round")
    IN [state |-> [vs EXCEPT !.challenges = Append(@, c.challenge),
                             !.polynomials_received = Append(@, prover_msg)],
        transcript |-> c.transcript,
        challenge |-> c.challenge]

\* interpolate_uni_poly: the value at r of the polynomial of degree <= d
\* whose values at 0..d are evals[1..d+1] (Lagrange)
LagrangeBasis(j, d, r) ==
    ProdSeq([k1 \in 1 .. (d + 1) |->
        IF k1 - 1 = j THEN 1
        ELSE Fmul(Fsub(r, k1 - 1), Finv(Fsub(j, k1 - 1)))])

interpolate_uni_poly(evals, d, r) ==
    SumSeq([j1 \in 1 .. (d + 1) |-> Fmul(evals[j1], LagrangeBasis(j1 - 1, d, r))])

\* the value round i's sum must equal: the asserted sum for the first round,
\* the previous message at the previous challenge for the later ones
ExpectedAt(vs, asserted_sum, d, i) ==
    IF i = 1 THEN asserted_sum
    ELSE interpolate_uni_poly(vs.polynomials_received[i - 1], d, vs.challenges[i - 1])

RoundConsistent(vs, asserted_sum, d, i) ==
    Fadd(vs.polynomials_received[i][1], vs.polynomials_received[i][2])
        = ExpectedAt(vs, asserted_sum, d, i)

\* IOPVerifierState::check_and_generate_subclaim
check_and_generate_subclaim(vs, asserted_sum, mask_poly_nv, mask_poly_degree) ==
    LET d == Max(vs.max_degree, mask_poly_degree)
        n == vs.num_vars
    IN IF \A i \in 1 .. n : RoundConsistent(vs, asserted_sum, d, i)
       THEN [kind |-> "ok",
             point |-> vs.challenges,
             expected_evaluation |->
                 interpolate_uni_poly(vs.polynomials_received[n], d, vs.challenges[n])]
       ELSE [kind |-> "err", error |-> "SumCheckFailed"]


\* ------------------------------------------------------------------ inputs
\* the hypercube table of n variables generated by seed s
TableOf(s, n) == [k \in 1 .. Pow2(n) |-> (s * k * k + s * s * k + s) % P]

\* product k of a polynomial of max degree deg has Max(1, deg - k + 1) factors
PolyOf(n, deg, ps) ==
    [aux_info |-> [num_variables |-> n, max_degree |-> deg],
     products |-> [k \in 1 .. ((ps % 2) + 1) |->
         [coef |-> (ps * k) % P,
          factors |-> [j \in 1 .. Max(1, deg - k + 1) |-> TableOf(ps + k + j, n)]]]]

MaskOf(nv, deg, ms) ==
    [num_variables |-> nv, degree |-> deg, table |-> TableOf(ms, nv)]

PolySeeds == {0, 1, 2}
MaskSeeds == {1, 3}
Seeds     == {0, 1}
Rhos      == F \ {0}

Polys == {PolyOf(n, deg, ps) : n \in 1 .. MaxNumVars, deg \in 1 .. MaxDegree, ps \in PolySeeds}
Masks == {MaskOf(nv, deg, ms) : nv \in 1 .. MaxNumVars, deg \in 1 .. MaxDegree, ms \in MaskSeeds}

\* ------------------------------------------------------------------ state
VARIABLES
    poly,            \* prove's poly
    mask_poly,       \* prove's mask_poly
    rho,             \* the blinding scalar
    seed,            \* the initial state of the prover's transcript
    pc,              \* prove's position
    transcript,      \* prove's transcript
    prover_state,    \* prove's prover_state
    challenge,       \* prove's challenge: <<>> is None, <<c>> is Some(c)
    prover_msgs,     \* prove's prover_msgs
    prove_result,    \* what prove gave its caller
    vpc,             \* verify's position
    tamper,          \* how the proof given to verify differs from prove's
    vseed,           \* the initial state of the verifier's transcript
    claimed_sum,     \* verify's claimed_sum
    proof,           \* verify's proof
    vtranscript,     \* verify's transcript
    verifier_state,  \* verify's verifier_state
    i,               \* verify's loop index
    verify_result,   \* what verify gave its caller
    extracted        \* what extract_sum gave its caller

pvars == <<poly, mask_poly, rho, seed, pc, transcript, prover_state, challenge,
           prover_msgs, prove_result>>
vvars == <<vpc, tamper, vseed, claimed_sum, proof, vtranscript, verifier_state,
           i, verify_result, extracted>>
vars == <<pvars, vvars>>

NoState == [none |-> TRUE]
NoProof == [point |-> <<>>, proofs |-> <<>>]

Init ==
    /\ poly \in Polys
    /\ mask_poly \in Masks
    /\ rho \in Rhos
    /\ seed \in Seeds
    /\ pc = "start"
    /\ transcript = NewTranscript(seed)
    /\ prover_state = NoState
    /\ challenge = <<>>
    /\ prover_msgs = <<>>
    /\ prove_result = [kind |-> "none"]
    /\ vpc = "idle"
    /\ tamper = [kind |-> "none"]
    /\ vseed = 0
    /\ claimed_sum = 0
    /\ proof = NoProof
    /\ vtranscript = <<>>
    /\ verifier_state = NoState
    /\ i = 0
    /\ verify_result = [kind |-> "none"]
    /\ extracted = [kind |-> "none"]

\* ------------------------------------------------------------------ prove
\* prove, up to the loop, were prover_init's error dropped and an empty
\* prover state used in its place
ProveStartIgnoreError ==
    /\ pc = "start"
    /\ transcript' = append_serializable_element(transcript, "aux info",
                                                 SerializeAux(poly.aux_info))
    /\ LET r == prover_init(poly, mask_poly)
       IN prover_state' = IF r.ok THEN r.state
                          ELSE [challenges |-> <<>>, round |-> 0, products |-> <<>>,
                                mask_table |-> <<>>,
                                degree |-> Max(poly.aux_info.max_degree, mask_poly.degree)]
    /\ pc' = "loop"
    /\ UNCHANGED <<poly, mask_poly, rho, seed, challenge, prover_msgs, prove_result, vvars>>

\* prove, up to the loop: the aux info is appended, the prover state built
ProveStart ==
    /\ pc = "start"
    /\ transcript' = append_serializable_element(transcript, "aux info",
                                                 SerializeAux(poly.aux_info))
    /\ LET r == prover_init(poly, mask_poly)
       IN IF r.ok
          THEN /\ prover_state' = r.state
               /\ pc' = "loop"
               /\ UNCHANGED prove_result
          ELSE /\ prove_result' = [kind |-> "err", error |-> r.error]
               /\ pc' = "returned"
               /\ UNCHANGED prover_state
    /\ UNCHANGED <<poly, mask_poly, rho, seed, challenge, prover_msgs, vvars>>

\* the two assertions on a derived challenge
ChallengeNoZero(c) == c # 0

ChallengeAsserted(c) == c # 0 /\ c # 1

\* the round message is appended to the prover's transcript
ProverAbsorb(tr, msg) == append_serializable_element(tr, "prover msg", msg)

\* one iteration of prove's loop, were the challenge drawn afresh instead of
\* derived from the transcript
ProveRoundFreshChallenge ==
    /\ pc = "loop"
    /\ Len(prover_msgs) < poly.aux_info.num_variables
    /\ LET r == prove_round_and_update_state(prover_state, rho, challenge)
           t1 == ProverAbsorb(transcript, r.msg)
       IN \E c \in F :
          /\ prover_state' = r.state
          /\ prover_msgs' = Append(prover_msgs, r.msg)
          /\ transcript' = Append(t1, <<"Internal round", <<c>> >>)
          /\ challenge' = <<c>>
          /\ IF ChallengeAsserted(c)
             THEN /\ pc' = "loop"
                  /\ UNCHANGED prove_result
             ELSE /\ pc' = "aborted"
                  /\ prove_result' = [kind |-> "abort", message |-> "assertion failed"]
    /\ UNCHANGED <<poly, mask_poly, rho, seed, vvars>>

\* one iteration of prove's loop, were the challenge derived before the
\* message is appended
ProveRoundChallengeFirst ==
    /\ pc = "loop"
    /\ Len(prover_msgs) < poly.aux_info.num_variables
    /\ LET r == prove_round_and_update_state(prover_state, rho, challenge)
           c == get_and_append_challenge(transcript, "Internal round")
       IN /\ prover_state' = r.state
          /\ prover_msgs' = Append(prover_msgs, r.msg)
          /\ transcript' = ProverAbsorb(c.transcript, r.msg)
          /\ challenge' = <<c.challenge>>
          /\ IF ChallengeAsserted(c.challenge)
             THEN /\ pc' = "loop"
                  /\ UNCHANGED prove_result
             ELSE /\ pc' = "aborted"
                  /\ prove_result' = [kind |-> "abort", message |-> "assertion failed"]
    /\ UNCHANGED <<poly, mask_poly, rho, seed, vvars>>

\* one iteration of prove's loop, were the previous challenge never handed
\* to the prover state
ProveRoundNoChallenge ==
    /\ pc = "loop"
    /\ Len(prover_msgs) < poly.aux_info.num_variables
    /\ LET r == prove_round_and_update_state(prover_state, rho, <<>>)
           t1 == ProverAbsorb(transcript, r.msg)
           c == get_and_append_challenge(t1, "Internal round")
       IN /\ prover_state' = r.state
          /\ prover_msgs' = Append(prover_msgs, r.msg)
          /\ transcript' = c.transcript
          /\ challenge' = <<c.challenge>>
          /\ IF ChallengeAsserted(c.challenge)
             THEN /\ pc' = "loop"
                  /\ UNCHANGED prove_result
             ELSE /\ pc' = "aborted"
                  /\ prove_result' = [kind |-> "abort", message |-> "assertion failed"]
    /\ UNCHANGED <<poly, mask_poly, rho, seed, vvars>>

\* one iteration of prove's loop
ProveRound ==
    /\ pc = "loop"
    /\ Len(prover_msgs) < poly.aux_info.num_variables
    /\ LET r == prove_round_and_update_state(prover_state, rho, challenge)
           t1 == ProverAbsorb(transcript, r.msg)
           c == get_and_append_challenge(t1, "Internal round")
       IN /\ prover_state' = r.state
          /\ prover_msgs' = Append(prover_msgs, r.msg)
          /\ transcript' = c.transcript
          /\ challenge' = <<c.challenge>>
          /\ IF ChallengeAsserted(c.challenge)
             THEN /\ pc' = "loop"
                  /\ UNCHANGED prove_result
             ELSE /\ pc' = "aborted"
                  /\ prove_result' = [kind |-> "abort", message |-> "assertion failed"]
    /\ UNCHANGED <<poly, mask_poly, rho, seed, vvars>>

\* the proof prove returns: the last challenge is pushed to the state's record
ProofPointOnlyState(st, chal, msgs) ==
    [point |-> st.challenges, proofs |-> msgs]

ProofOf(st, chal, msgs) ==
    [point |-> IF chal = <<>> THEN st.challenges ELSE Append(st.challenges, chal[1]),
     proofs |-> msgs]

\* prove, after the loop
ProveFinish ==
    /\ pc = "loop"
    /\ Len(prover_msgs) = poly.aux_info.num_variables
    /\ prove_result' = [kind |-> "ok", proof |-> ProofOf(prover_state, challenge, prover_msgs)]
    /\ pc' = "returned"
    /\ UNCHANGED <<poly, mask_poly, rho, seed, transcript, prover_state, challenge,
                   prover_msgs, vvars>>

\* ------------------------------------------------------------------ verify
\* the proofs a caller may hand to verify, each with how it differs from pr
Tampered(pr) ==
    {[tamper |-> [kind |-> "none"], proof |-> pr]}
    \cup {[tamper |-> [kind |-> "entry", round |-> r, entry |-> e, delta |-> d],
           proof |-> [pr EXCEPT !.proofs[r][e] = Fadd(@, d)]] :
             r \in 1 .. Len(pr.proofs), e \in 1 .. Len(pr.proofs[1]), d \in F \ {0}}
    \cup {[tamper |-> [kind |-> "truncate"],
           proof |-> [pr EXCEPT !.proofs = SubSeq(@, 1, Len(@) - 1)]]}
    \cup {[tamper |-> [kind |-> "extend"],
           proof |-> [pr EXCEPT !.proofs = Append(@, @[Len(@)])]]}
    \cup {[tamper |-> [kind |-> "point"],
           proof |-> [pr EXCEPT !.point[1] = Fadd(@, 1)]]}

\* verify, up to the loop
VerifyStart ==
    /\ vpc = "idle"
    /\ prove_result.kind = "ok"
    /\ \E t \in Tampered(prove_result.proof), s \in F, vs \in Seeds :
        /\ tamper' = t.tamper
        /\ proof' = t.proof
        /\ claimed_sum' = s
        /\ vseed' = vs
        /\ vtranscript' = append_serializable_element(NewTranscript(vs), "aux info",
                                                      SerializeAux(poly.aux_info))
    /\ verifier_state' = verifier_init(poly.aux_info)
    /\ i' = 0
    /\ vpc' = "loop"
    /\ UNCHANGED <<pvars, verify_result, extracted>>

\* proof.proofs.get(i): whether the proof carries a message for round i
HasMessage(pr, k) == k < Len(pr.proofs)

\* proof.proofs.get(i): the message of round i (rounds count from 0)
MessageAtFirst(pr, k) == pr.proofs[1]

MessageAt(pr, k) == pr.proofs[k + 1]

\* the replayed message is appended to the verifier's transcript
VerifierAbsorbNothing(tr, msg) == tr

VerifierAbsorb(tr, msg) == append_serializable_element(tr, "prover msg", msg)

\* one iteration of verify's loop, were the round's consistency checked as
\* soon as its message is received
VerifyRoundEager ==
    /\ vpc = "loop"
    /\ i < poly.aux_info.num_variables
    /\ IF HasMessage(proof, i)
       THEN LET prover_msg == MessageAt(proof, i)
                t1 == VerifierAbsorb(vtranscript, prover_msg)
                r == verify_round_and_update_state(verifier_state, prover_msg, t1)
                expected ==
                    IF i = 0 THEN claimed_sum
                    ELSE interpolate_uni_poly(verifier_state.polynomials_received[i],
                             Max(poly.aux_info.max_degree, mask_poly.degree),
                             verifier_state.challenges[i])
            IN IF Fadd(prover_msg[1], prover_msg[2]) = expected
               THEN /\ vtranscript' = r.transcript
                    /\ verifier_state' = r.state
                    /\ i' = i + 1
                    /\ UNCHANGED <<vpc, verify_result>>
               ELSE /\ vpc' = "returned"
                    /\ verify_result' = [kind |-> "err", error |-> "SumCheckFailed"]
                    /\ UNCHANGED <<vtranscript, verifier_state, i>>
       ELSE /\ vpc' = "aborted"
            /\ verify_result' = [kind |-> "abort", message |-> "proof is incomplete"]
            /\ UNCHANGED <<vtranscript, verifier_state, i>>
    /\ UNCHANGED <<pvars, tamper, vseed, claimed_sum, proof, extracted>>

\* one iteration of verify's loop
VerifyRound ==
    /\ vpc = "loop"
    /\ i < poly.aux_info.num_variables
    /\ IF HasMessage(proof, i)
       THEN LET prover_msg == MessageAt(proof, i)
                t1 == VerifierAbsorb(vtranscript, prover_msg)
                r == verify_round_and_update_state(verifier_state, prover_msg, t1)
            IN /\ vtranscript' = r.transcript
               /\ verifier_state' = r.state
               /\ i' = i + 1
               /\ UNCHANGED <<vpc, verify_result>>
       ELSE /\ vpc' = "aborted"
            /\ verify_result' = [kind |-> "abort", message |-> "proof is incomplete"]
            /\ UNCHANGED <<vtranscript, verifier_state, i>>
    /\ UNCHANGED <<pvars, tamper, vseed, claimed_sum, proof, extracted>>

\* extract_sum: the sum of the first two evaluations of the first message
ExtractSumLastMessage(pr) ==
    Fadd(pr.proofs[Len(pr.proofs)][1], pr.proofs[Len(pr.proofs)][2])

extract_sum(pr) == Fadd(pr.proofs[1][1], pr.proofs[1][2])

\* the caller applies extract_sum to the proof it gave to verify; indexing
\* proofs[0] of a proof without messages aborts
ExtractSum ==
    /\ vpc \in {"returned", "aborted"}
    /\ extracted.kind = "none"
    /\ extracted' = IF Len(proof.proofs) = 0
                    THEN [kind |-> "abort", message |-> "index out of bounds"]
                    ELSE [kind |-> "ok", sum |-> extract_sum(proof)]
    /\ UNCHANGED <<pvars, vpc, tamper, vseed, claimed_sum, proof, vtranscript,
                   verifier_state, i, verify_result>>

\* verify, after the loop, were the asserted sum read off the proof
VerifyFinishExtractedSum ==
    /\ vpc = "loop"
    /\ i = poly.aux_info.num_variables
    /\ verify_result' = check_and_generate_subclaim(verifier_state, extract_sum(proof),
                            mask_poly.num_variables, mask_poly.degree)
    /\ vpc' = "returned"
    /\ UNCHANGED <<pvars, tamper, vseed, claimed_sum, proof, vtranscript,
                   verifier_state, i, extracted>>

\* verify, after the loop, were the sub-claim's point taken from the proof
VerifyFinishProofPoint ==
    /\ vpc = "loop"
    /\ i = poly.aux_info.num_variables
    /\ LET res == check_and_generate_subclaim(verifier_state, claimed_sum,
                      mask_poly.num_variables, mask_poly.degree)
       IN verify_result' = IF res.kind = "ok" THEN [res EXCEPT !.point = proof.point]
                           ELSE res
    /\ vpc' = "returned"
    /\ UNCHANGED <<pvars, tamper, vseed, claimed_sum, proof, vtranscript,
                   verifier_state, i, extracted>>

\* verify, after the loop
VerifyFinish ==
    /\ vpc = "loop"
    /\ i = poly.aux_info.num_variables
    /\ verify_result' = check_and_generate_subclaim(verifier_state, claimed_sum,
                            mask_poly.num_variables, mask_poly.degree)
    /\ vpc' = "returned"
    /\ UNCHANGED <<pvars, tamper, vseed, claimed_sum, proof, vtranscript,
                   verifier_state, i, extracted>>

Next ==
    \/ ProveStart
    \/ ProveRound
    \/ ProveFinish
    \/ VerifyStart
    \/ VerifyRound
    \/ VerifyFinish
    \/ ExtractSum

Spec == Init /\ [][Next]_vars


\* ------------------------------------------------------------------ properties
\* the challenges a transcript log records, in the order they were derived
DerivedChallenges(log) ==
    LET sel == SelectSeq(log, LAMBDA e : e[1] = "Internal round")
    IN [k \in 1 .. Len(sel) |-> sel[k][2][1]]

\* the combined sum true_sum + rho * mask_sum
CombinedSum == Fadd(PolySum(poly), Fmul(rho, MaskSum(mask_poly)))

NumVars == poly.aux_info.num_variables

\* verify ran on prove's proof as it is, from the prover's initial transcript,
\* with the correctly computed claimed sum
HonestRun ==
    /\ tamper.kind = "none"
    /\ vseed = seed
    /\ claimed_sum = CombinedSum

\* C1 (completeness): when prove has returned a proof for a polynomial and a
\* mask with matching parameters and a nonzero rho, and verify has run on that
\* proof with claimed_sum = true_sum + rho * mask_sum from the same initial
\* transcript, verify returns a sub-claim (point, expected_evaluation) with
\* polynomial.evaluate(point) + rho * mask.evaluate(point) = expected_evaluation.
C1_Completeness ==
    (vpc \in {"returned", "aborted"} /\ HonestRun /\ rho # 0)
        => /\ verify_result.kind = "ok"
           /\ Fadd(PolyEvaluate(poly, verify_result.point),
                   Fmul(rho, MaskEvaluate(mask_poly, verify_result.point)))
                = verify_result.expected_evaluation

C1_Witness ==
    /\ vpc = "returned" /\ HonestRun /\ rho # 0
    /\ NumVars = MaxNumVars
    /\ Len(poly.products) = 2
    /\ verify_result.kind = "ok"
    /\ verify_result.expected_evaluation # 0


\* the challenges verify derived, read off its transcript
VerifierChallenges == DerivedChallenges(vtranscript)

\* the degree of the round polynomials verify interpolates
RoundDegree == Max(poly.aux_info.max_degree, mask_poly.degree)

\* the deferred check of round k (1-based) on the proof given to verify
DeferredCheck(k) ==
    Fadd(proof.proofs[k][1], proof.proofs[k][2])
        = IF k = 1 THEN claimed_sum
          ELSE interpolate_uni_poly(proof.proofs[k - 1], RoundDegree,
                                    VerifierChallenges[k - 1])

\* C3: verify returns a sub-claim only if every deferred check holds
\* (message[0](0) + message[0](1) = claimed_sum, and message[i](0) +
\* message[i](1) = message[i-1] at challenge[i-1] for the later rounds); if
\* one of them fails, verify fails with SumCheckFailed.
C3_DeferredChecks ==
    vpc = "returned"
        => IF \A k \in 1 .. NumVars : DeferredCheck(k)
           THEN verify_result.kind = "ok"
           ELSE verify_result = [kind |-> "err", error |-> "SumCheckFailed"]

\* a later round's check fails while round 0's holds, and verify has failed
C3_Witness ==
    /\ vpc = "returned"
    /\ NumVars = MaxNumVars
    /\ DeferredCheck(1)
    /\ ~DeferredCheck(NumVars)
    /\ verify_result = [kind |-> "err", error |-> "SumCheckFailed"]

\* C4: when verify succeeds, the sub-claim's point is the sequence of the n
\* challenges the verifier derived, in round order, and expected_evaluation
\* is the last round message evaluated at the last challenge.
C4_SubClaim ==
    (vpc = "returned" /\ verify_result.kind = "ok")
        => /\ verify_result.point = VerifierChallenges
           /\ Len(verify_result.point) = NumVars
           /\ verify_result.expected_evaluation
                = interpolate_uni_poly(proof.proofs[NumVars], RoundDegree,
                                       VerifierChallenges[NumVars])

\* verify accepted a proof of MaxNumVars rounds whose challenges differ
C4_Witness ==
    /\ vpc = "returned"
    /\ verify_result.kind = "ok"
    /\ NumVars = MaxNumVars
    /\ verify_result.point[1] # verify_result.point[NumVars]
    /\ tamper.kind = "entry"


\* verify has ended (returned or aborted) on prove's proof with one evaluation
\* entry of one round message changed, all else as in an honest run
TamperedRun ==
    /\ vpc \in {"returned", "aborted"}
    /\ tamper.kind = "entry"
    /\ vseed = seed
    /\ claimed_sum = CombinedSum

\* C5 as stated: a change of a single evaluation entry in any one round
\* message of prove's proof makes verify fail with SumCheckFailed.
C5_AnyEntryRejected ==
    TamperedRun => verify_result = [kind |-> "err", error |-> "SumCheckFailed"]

\* C5 as amended: a change of the entry at position 0 or 1 of any one round
\* message makes verify fail with SumCheckFailed, while a change of an entry
\* at a position >= 2 of the last round message is not detected: verify
\* returns a sub-claim.
C5_SummedEntryRejected ==
    TamperedRun
        => /\ tamper.entry <= 2
                => verify_result = [kind |-> "err", error |-> "SumCheckFailed"]
           /\ (tamper.entry > 2 /\ tamper.round = NumVars)
                => verify_result.kind = "ok"

\* a summed entry of the last of MaxNumVars messages was changed
C5_Witness ==
    /\ TamperedRun
    /\ NumVars = MaxNumVars
    /\ tamper.round = NumVars
    /\ tamper.entry = 2
    /\ verify_result = [kind |-> "err", error |-> "SumCheckFailed"]

\* C6 as stated: verify called with a proof of fewer round messages than
\* num_variables returns the error ProofIncomplete (no abort, no sub-claim).
C6_ProofIncompleteReturned ==
    (vpc \in {"returned", "aborted"} /\ Len(proof.proofs) < NumVars)
        => verify_result = [kind |-> "err", error |-> "ProofIncomplete"]

\* C7 as stated: when a challenge derived in prove is the field's 0 or 1,
\* prove returns the error DegenerateChallenge (no abort, no proof).
C7_DegenerateChallengeReturned ==
    (challenge # <<>> /\ challenge[1] \in {0, 1})
        => prove_result = [kind |-> "err", error |-> "DegenerateChallenge"]

\* C8: every proof prove returns has every entry of its point, and every
\* challenge derived during the run, different from 0 and from 1.
C8_ProofPointNonDegenerate ==
    prove_result.kind = "ok"
        => /\ \A k \in 1 .. Len(prove_result.proof.point) :
                prove_result.proof.point[k] \notin {0, 1}
           /\ \A k \in 1 .. Len(DerivedChallenges(transcript)) :
                DerivedChallenges(transcript)[k] \notin {0, 1}

\* prove returned a proof of MaxNumVars rounds
C8_Witness ==
    /\ prove_result.kind = "ok"
    /\ Len(prove_result.proof.point) = MaxNumVars
    /\ Len(DerivedChallenges(transcript)) = MaxNumVars

\* C9 as stated: any sub-claim verify returns, for any proof, has no entry of
\* its point equal to 0 or 1.
C9_SubClaimPointNonDegenerate ==
    (vpc = "returned" /\ verify_result.kind = "ok")
        => \A k \in 1 .. Len(verify_result.point) : verify_result.point[k] \notin {0, 1}

\* C10: every proof prove returns has exactly num_variables round messages
\* and a point of num_variables challenges; point[i] is the challenge derived
\* right after message i was appended to the transcript; the first n-1 are
\* those the prover state recorded, the last is the one prove pushed.
C10_RoundCount ==
    prove_result.kind = "ok"
        => LET pr == prove_result.proof
           IN /\ Len(pr.proofs) = NumVars
              /\ Len(pr.point) = NumVars
              /\ Len(transcript) = 2 + 2 * NumVars
              /\ \A k \in 1 .. NumVars :
                    /\ transcript[2 * k + 1] = <<"prover msg", pr.proofs[k]>>
                    /\ transcript[2 * k + 2] = <<"Internal round", <<pr.point[k]>> >>
              /\ prover_state.challenges = SubSeq(pr.point, 1, NumVars - 1)
              /\ challenge = <<pr.point[NumVars]>>

\* prove returned a proof of MaxNumVars rounds with two different challenges
C10_Witness ==
    /\ prove_result.kind = "ok"
    /\ NumVars = MaxNumVars
    /\ prove_result.proof.point[1] # prove_result.proof.point[NumVars]
    /\ Len(prove_result.proof.proofs[1]) = MaxDegree + 1

\* ------------------------------------------------------------------ prove and verify as functions
\* prove's loop from the state (st, chal, tr, msgs), run to its end
RECURSIVE ProveLoop(_, _, _, _, _, _)
ProveLoop(st, r, chal, tr, msgs, n) ==
    IF Len(msgs) = n
    THEN [result |-> [kind |-> "ok", proof |-> ProofOf(st, chal, msgs)],
          transcript |-> tr]
    ELSE LET s == prove_round_and_update_state(st, r, chal)
             c == get_and_append_challenge(ProverAbsorb(tr, s.msg), "Internal round")
         IN IF ChallengeAsserted(c.challenge)
            THEN ProveLoop(s.state, r, <<c.challenge>>, c.transcript,
                           Append(msgs, s.msg), n)
            ELSE [result |-> [kind |-> "abort", message |-> "assertion failed"],
                  transcript |-> c.transcript]

\* prove(poly, mask_poly, rho, transcript): what it gives its caller and the
\* state it leaves the transcript in
prove(polynomial, mask, r, tr) ==
    LET t0 == append_serializable_element(tr, "aux info",
                                          SerializeAux(polynomial.aux_info))
        init == prover_init(polynomial, mask)
    IN IF init.ok
       THEN ProveLoop(init.state, r, <<>>, t0, <<>>, polynomial.aux_info.num_variables)
       ELSE [result |-> [kind |-> "err", error |-> init.error], transcript |-> t0]

\* prove has ended (it returned a proof or an error, or aborted) and its caller
\* has not yet gone on to verify
ProveEnded == vpc = "idle" /\ pc \in {"returned", "aborted"}

\* C11 (determinism): the proof prove returns (messages and point) and the
\* state it leaves the transcript in are a function of the polynomial, the
\* mask, rho and the initial transcript state alone, so two runs on the same
\* inputs give identical proofs and identical transcripts.
C11_Determinism ==
    ProveEnded
        => /\ prove_result = prove(poly, mask_poly, rho, NewTranscript(seed)).result
           /\ transcript = prove(poly, mask_poly, rho, NewTranscript(seed)).transcript

\* prove returned a proof of MaxNumVars rounds of degree MaxDegree
C11_Witness ==
    /\ pc = "returned"
    /\ prove_result.kind = "ok"
    /\ NumVars = MaxNumVars
    /\ Len(prove_result.proof.proofs) = MaxNumVars
    /\ Len(prove_result.proof.proofs[1]) = MaxDegree + 1
    /\ Len(transcript) = 2 + 2 * MaxNumVars

\* the challenges prove derived, in round order (the point of its proof)
ProverChallenges == DerivedChallenges(transcript)

\* verify replays the messages the prover sent, from the transcript history
\* the prover started from
SameReplay ==
    /\ vseed = seed
    /\ Len(proof.proofs) >= NumVars
    /\ SubSeq(proof.proofs, 1, NumVars) = prove_result.proof.proofs

\* C12 as stated: verify reproduces the prover's challenge sequence if and
\* only if the messages it replays and the transcript history it starts from
\* are those the prover used.
C12_ReplayIff ==
    vpc = "returned" => ((VerifierChallenges = ProverChallenges) <=> SameReplay)

\* C12 as amended: if the messages verify replays and the transcript history
\* it starts from are those the prover used, verify derives the prover's
\* challenge sequence (the point of the proof prove returned, entry by entry,
\* which is the point of any sub-claim it returns) and appends exactly the
\* labelled entries prove appended, in the same order.
C12_ReplayIf ==
    (vpc = "returned" /\ SameReplay)
        => /\ VerifierChallenges = ProverChallenges
           /\ VerifierChallenges = prove_result.proof.point
           /\ vtranscript = transcript
           /\ verify_result.kind = "ok" => verify_result.point = prove_result.proof.point

\* verify replayed an honest proof of MaxNumVars rounds and accepted it
C12_Witness ==
    /\ vpc = "returned"
    /\ SameReplay
    /\ NumVars = MaxNumVars
    /\ verify_result.kind = "ok"
    /\ Len(vtranscript) = 2 + 2 * MaxNumVars
    /\ vtranscript = transcript

\* C13: extract_sum(proof) is the sum of the first two evaluations (at 0 and
\* 1) of the first round message; for the proof prove produced it is
\* true_sum + rho * mask_sum, and for every proof verify accepted with
\* claimed sum s it is s.
C13_ExtractSum ==
    extracted.kind = "ok"
        => /\ extracted.sum = Fadd(proof.proofs[1][1], proof.proofs[1][2])
           /\ tamper.kind = "none" => extracted.sum = CombinedSum
           /\ verify_result.kind = "ok" => extracted.sum = claimed_sum

\* the sum was extracted from an accepted, tampered proof of MaxNumVars rounds
\* whose last message sums to something else
C13_Witness ==
    /\ extracted.kind = "ok"
    /\ verify_result.kind = "ok"
    /\ tamper.kind = "entry"
    /\ NumVars = MaxNumVars
    /\ extracted.sum = claimed_sum
    /\ extracted.sum # Fadd(proof.proofs[NumVars][1], proof.proofs[NumVars][2])

\* the virtual polynomial is identically zero: every product has a zero
\* coefficient or a factor that is zero on the whole hypercube
ZeroPolynomial ==
    \A k \in 1 .. Len(poly.products) :
        \/ poly.products[k].coef = 0
        \/ \E j \in 1 .. Len(poly.products[k].factors) :
              \A b \in 1 .. Len(poly.products[k].factors[j]) :
                  poly.products[k].factors[j][b] = 0

\* C14 (scenario C): for an identically-zero virtual polynomial and the proof
\* prove produced with the mask and rho, verified from the same initial
\* transcript, verify succeeds if and only if claimed_sum = rho * mask_sum.
C14_ZeroPolynomial ==
    (vpc \in {"returned", "aborted"} /\ ZeroPolynomial /\ tamper.kind = "none"
        /\ vseed = seed)
        => (verify_result.kind = "ok"
                <=> claimed_sum = Fmul(rho, MaskSum(mask_poly)))

\* verify accepted the proof for a zero polynomial of MaxNumVars variables
\* with a nonzero claimed sum
C14_Witness ==
    /\ vpc = "returned"
    /\ ZeroPolynomial
    /\ tamper.kind = "none"
    /\ vseed = seed
    /\ NumVars = MaxNumVars
    /\ verify_result.kind = "ok"
    /\ claimed_sum # 0

\* the polynomial and the mask do not match: different variable counts, or a
\* mask degree bound below the polynomial's maximum term degree
Mismatch ==
    \/ mask_poly.num_variables # poly.aux_info.num_variables
    \/ mask_poly.degree < poly.aux_info.max_degree

\* C15: if the polynomial and the mask have different variable counts, or the
\* mask's degree bound is below the polynomial's maximum term degree,
\* prover_init fails with InvalidInput and prove returns that error without
\* computing a round message, deriving a challenge or returning a proof.
C15_InvalidInput ==
    (Mismatch /\ pc # "start")
        => /\ pc = "returned"
           /\ prove_result = [kind |-> "err", error |-> "InvalidInput"]
           /\ prover_state = NoState
           /\ prover_msgs = <<>>
           /\ challenge = <<>>
           /\ DerivedChallenges(transcript) = <<>>
           /\ vpc = "idle"

\* prove returned InvalidInput for a mask of the right variable count whose
\* degree bound is too low
C15_Witness ==
    /\ pc = "returned"
    /\ mask_poly.num_variables = poly.aux_info.num_variables
    /\ mask_poly.degree < poly.aux_info.max_degree
    /\ prove_result = [kind |-> "err", error |-> "InvalidInput"]

\* the order of prove's transcript and rounds, in a state past the start
RoundOrder ==
    LET r == Len(prover_msgs)
    IN /\ transcript[1] = <<"init", <<seed>> >>
       /\ transcript[2] = <<"aux info", SerializeAux(poly.aux_info)>>
       /\ r <= NumVars
       /\ Len(transcript) = 2 + 2 * r
       /\ \A k \in 1 .. r :
             /\ transcript[2 * k + 1] = <<"prover msg", prover_msgs[k]>>
             /\ transcript[2 * k + 2] =
                    <<"Internal round",
                      <<get_and_append_challenge(SubSeq(transcript, 1, 2 * k + 1),
                                                 "Internal round").challenge>> >>
       /\ challenge = IF r = 0 THEN <<>> ELSE <<ProverChallenges[r]>>
       /\ prover_state # NoState
             => /\ r = 0 => prover_state.challenges = <<>>
                /\ r > 0 => prover_state.challenges = SubSeq(ProverChallenges, 1, r - 1)
       /\ pc = "returned"
             => \/ prove_result.kind = "ok" /\ r = NumVars
                \/ prove_result.kind = "err" /\ r = 0
       /\ pc = "aborted" => prove_result.kind = "abort"

\* one step of prove: at most one more round, the earlier ones kept, and
\* nothing once prove has ended
RoundStep ==
    /\ \/ prover_msgs' = prover_msgs
       \/ /\ Len(prover_msgs') = Len(prover_msgs) + 1
          /\ SubSeq(prover_msgs', 1, Len(prover_msgs)) = prover_msgs
          /\ SubSeq(transcript', 1, Len(transcript)) = transcript
    /\ pc \in {"returned", "aborted"} => UNCHANGED pvars

\* C16: in prove the aux info is appended to the transcript before anything
\* else; then the rounds run one by one in order, each message appended
\* before that round's challenge is derived from the transcript; round 0
\* receives no previous challenge and round i+1 exactly the challenge derived
\* in round i; a run completes all num_variables rounds or ends early with an
\* error (or an abort), and a run that has ended is never resumed.
C16_RoundOrdering ==
    /\ [](pc # "start" => RoundOrder)
    /\ [][RoundStep]_vars

\* prove is between the rounds of a run of MaxNumVars rounds, the first
\* challenge folded into the prover state
C16_Witness ==
    /\ pc = "loop"
    /\ NumVars = MaxNumVars
    /\ Len(prover_msgs) = MaxNumVars
    /\ Len(prover_state.challenges) = MaxNumVars - 1
    /\ prover_state.challenges[1] = ProverChallenges[1]

\* verify's transcript holds the first r messages of the proof, each followed
\* by a challenge, and the verifier state recorded exactly those
Absorbed(r) ==
    /\ Len(vtranscript) = 2 + 2 * r
    /\ Len(VerifierChallenges) = r
    /\ \A k \in 1 .. r : vtranscript[2 * k + 1] = <<"prover msg", proof.proofs[k]>>
    /\ verifier_state.polynomials_received = SubSeq(proof.proofs, 1, r)
    /\ verifier_state.challenges = VerifierChallenges

\* C17 (deferred verification): the verifier's per-round step checks nothing
\* and never fails with SumCheckFailed, it only records the message and the
\* challenge; a proof of num_variables messages whose check fails at some
\* round (round 0 included) has all its num_variables messages absorbed and
\* all num_variables challenges derived before the final check reports
\* SumCheckFailed.
C17_DeferredVerification ==
    /\ vpc = "loop" => (verify_result.kind = "none" /\ Absorbed(i))
    /\ verify_result.kind = "err"
          => /\ verify_result.error = "SumCheckFailed"
             /\ vpc = "returned"
             /\ i = NumVars
             /\ Absorbed(NumVars)

\* round 0's check fails on a proof of MaxNumVars messages, and verify failed
\* only after absorbing them all
C17_Witness ==
    /\ vpc = "returned"
    /\ NumVars = MaxNumVars
    /\ ~DeferredCheck(1)
    /\ verify_result = [kind |-> "err", error |-> "SumCheckFailed"]
    /\ Len(VerifierChallenges) = MaxNumVars

\* the point whose first coordinates are the challenges `fixed`, the next one
\* x, and the remaining ones (up to n) the bits of b
RoundPoint(fixed, x, b, n) ==
    [k \in 1 .. n |->
        IF k <= Len(fixed) THEN fixed[k]
        ELSE IF k = Len(fixed) + 1 THEN x
        ELSE Bit(b, k - Len(fixed) - 1)]

\* the round polynomial at x: the sum over the remaining hypercube of
\* polynomial + rho * mask with the earlier variables bound to `fixed`
RoundPolynomialAt(fixed, x) ==
    SumSeq([b1 \in 1 .. Pow2(NumVars - Len(fixed) - 1) |->
        Fadd(PolyEvaluate(poly, RoundPoint(fixed, x, b1 - 1, NumVars)),
             Fmul(rho, MaskEvaluate(mask_poly, RoundPoint(fixed, x, b1 - 1, NumVars))))])

\* the prover state and the message of round r (1-based), the last one run
FoldedFor(r) ==
    /\ prover_state.round = r - 1
    /\ Len(prover_state.challenges) = r - 1
    /\ prover_state.challenges = SubSeq(ProverChallenges, 1, r - 1)
    /\ Len(prover_state.mask_table) = Pow2(NumVars - (r - 1))
    /\ \A k \in 1 .. Len(prover_state.products) :
          \A j \in 1 .. Len(prover_state.products[k].factors) :
              Len(prover_state.products[k].factors[j]) = Pow2(NumVars - (r - 1))
    /\ r = 1 => /\ prover_state.products = poly.products
                /\ prover_state.mask_table = mask_poly.table
    /\ \A x \in 0 .. RoundDegree :
          prover_msgs[r][x + 1] = RoundPolynomialAt(prover_state.challenges, x)

\* message k has D+1 evaluations, and its values at 0 and 1 sum to the
\* previous message at the previous challenge (the combined sum for round 0)
MessageConsistent(k) ==
    /\ Len(prover_msgs[k]) = RoundDegree + 1
    /\ Fadd(prover_msgs[k][1], prover_msgs[k][2])
          = IF k = 1 THEN CombinedSum
            ELSE interpolate_uni_poly(prover_msgs[k - 1], RoundDegree,
                                      ProverChallenges[k - 1])

\* C18 (prover folding): the first round folds nothing; every later round
\* first folds every factor table and the mask by the previous challenge,
\* halving them and appending the challenge to the record, so that message i
\* is computed from tables of 2^(n-i) entries with i challenges recorded; each
\* message has D+1 evaluations at 0..D, and its values at 0 and 1 sum to the
\* previous message at the previous challenge (the combined sum for round 0).
C18_ProverFolding ==
    (vpc = "idle" /\ Len(prover_msgs) > 0)
        => /\ FoldedFor(Len(prover_msgs))
           /\ \A k \in 1 .. Len(prover_msgs) : MessageConsistent(k)

\* the last of MaxNumVars rounds ran on tables of two entries, for a
\* polynomial with two products of degree MaxDegree
C18_Witness ==
    /\ vpc = "idle"
    /\ NumVars = MaxNumVars
    /\ Len(prover_msgs) = MaxNumVars
    /\ Len(poly.products) = 2
    /\ poly.aux_info.max_degree = MaxDegree
    /\ Len(prover_state.mask_table) = 2
    /\ prover_msgs[MaxNumVars][1] # prover_msgs[MaxNumVars][2]

\* verify's loop from round k on, run to its end
RECURSIVE VerifyLoop(_, _, _, _, _)
VerifyLoop(vs, tr, pr, k, n) ==
    IF k = n THEN [aborted |-> FALSE, state |-> vs, transcript |-> tr]
    ELSE IF ~HasMessage(pr, k) THEN [aborted |-> TRUE, state |-> vs, transcript |-> tr]
    ELSE LET r == verify_round_and_update_state(vs, MessageAt(pr, k),
                      VerifierAbsorb(tr, MessageAt(pr, k)))
         IN VerifyLoop(r.state, r.transcript, pr, k + 1, n)

\* verify(claimed_sum, proof, aux_info, transcript, mask_poly_nv,
\* mask_poly_degree): what it gives its caller and the state it leaves the
\* transcript in
verify(s, pr, aux_info, tr, mask_poly_nv, mask_poly_degree) ==
    LET t0 == append_serializable_element(tr, "aux info", SerializeAux(aux_info))
        l == VerifyLoop(verifier_init(aux_info), t0, pr, 0, aux_info.num_variables)
    IN [result |-> IF l.aborted
                   THEN [kind |-> "abort", message |-> "proof is incomplete"]
                   ELSE check_and_generate_subclaim(l.state, s, mask_poly_nv,
                                                    mask_poly_degree),
        transcript |-> l.transcript]

\* a proof reduced to its first num_variables messages, its point dropped
FirstMessages(pr) ==
    [point |-> <<>>,
     proofs |-> SubSeq(pr.proofs, 1,
                       IF Len(pr.proofs) < NumVars THEN Len(pr.proofs) ELSE NumVars)]

\* verify on pr, with the other arguments of the run
VerifyOn(pr) ==
    verify(claimed_sum, pr, poly.aux_info, NewTranscript(vseed),
           mask_poly.num_variables, mask_poly.degree)

\* verify has ended: it returned (a sub-claim or an error) or aborted
VerifyEnded == vpc \in {"returned", "aborted"} /\ extracted.kind = "none"

\* C19: verify's outcome and final transcript depend only on claimed_sum,
\* aux_info, the mask parameters, the initial transcript and the first
\* num_variables messages of the proof: a proof that differs from another in
\* its point or in trailing messages only gets the same result (same error or
\* same sub-claim) and leaves the same transcript.
C19_FirstMessagesOnly ==
    VerifyEnded
        => /\ verify_result = VerifyOn(FirstMessages(proof)).result
           /\ vtranscript = VerifyOn(FirstMessages(proof)).transcript
           /\ tamper.kind \in {"point", "extend"}
                => /\ verify_result = VerifyOn(prove_result.proof).result
                   /\ vtranscript = VerifyOn(prove_result.proof).transcript

\* verify accepted a proof of MaxNumVars rounds whose point was changed
C19_Witness ==
    /\ VerifyEnded
    /\ tamper.kind = "point"
    /\ NumVars = MaxNumVars
    /\ proof.point # prove_result.proof.point
    /\ verify_result.kind = "ok"
    /\ verify_result.point = prove_result.proof.point

====
